---- MODULE Spec2Model ----
(***************************************************************************)
(* SpotLiquidityBot (src/main.py): a spot market-making bot that keeps a   *)
(* buy and a sell resting around the mid price, replaces filled orders,    *)
(* and withdraws its quotes after a sharp price drop.                      *)
(*                                                                         *)
(* Units.  Prices are integers in quote units (price_tick = 1).  Sizes are *)
(* integers in units of 10^-decimals base coin (decimals = 5).  The mid    *)
(* price is kept doubled (mid2 = best_bid + best_ask) so that it stays an  *)
(* integer.  Python floats are modelled by exact rational arithmetic; the  *)
(* two agree except within one ulp of a rounding tie.  SpecFlattenSize     *)
(* alone follows the floats bit by bit.  None is 0: the code tests prices  *)
(* and order ids by truthiness and the venue sends neither a zero price    *)
(* nor a zero order id.                                                    *)
(***************************************************************************)
EXTENDS Integers, Sequences, FiniteSets, TLC

\* ------------------------------------------------------------ configuration
\* main.py:648-660, the arguments of the bot that __main__ builds.
UsdOrderSize == 100
\* spread = 0.0004 = 1 / SpreadInv
SpreadInv == 2500
PriceTick == 1
MaxOrderAge == 60
PriceExpiryThreshold == 500
\* max_btc_position = 0.1, in size units
MaxBtcPosition == 10000
\* crash_threshold = 0.01 = CrashThresholdPct / 100
CrashThresholdPct == 1
CrashWindow == 60
CooldownAfterCrash == 180
\* reprice_threshold = 0.005 = 1 / RepriceThresholdInv (default, main.py:33)
RepriceThresholdInv == 200
ExtraSellLevels == 0
DynamicRepriceOnBbo == FALSE
\* the startup buy sits at mid * (1 - 0.0001) = mid * (1 - 1 / StartupOffsetInv)
StartupOffsetInv == 10000
\* 10^decimals, decimals = asset_to_sz_decimals of the pair (5 for UBTC/USDC)
SizeScale == 100000

\* ------------------------------------------------------------------- bounds
\* Order ids the venue hands out: 1..MaxOid, and 1..SteadyMaxOid in a steady
\* market.
MaxOid == 1
SteadyMaxOid == 4
\* Order ids handed out while an auditor counts the venue's executions.
LedgerMaxOid == 3
\* Longest mid-sample sequence the feed is let to build.
MaxHist == 2
\* time.time() at construction; wall-clock seconds since the epoch are far
\* beyond the cooldown, so the bot never starts inside one.
StartTime == 200
\* The clock advances in steps of TimeStep, MaxSpan in all: a step outlasts
\* max_order_age, crash_window and the cooldown.
TimeStep == 180
MaxSpan == 185
\* Quantity of one partial execution at the venue, and the quantity an account
\* owner's modify request adds to an order.
PartialQty == 60
ModifyQty == 60
\* The quantity left of a partially filled order: 1..MaxRemain size units.
MaxRemain == 99
\* cancel_expired_orders is tried on ages within AgeMargin seconds of
\* max_order_age and on mids within DevMargin half units of the price
\* deviation price_expiry_threshold.
AgeMargin == 3
DevMargin == 6
\* Fill hashes 1..MaxHash, at most MaxFills fills in one user_fills response,
\* and the longest fill log followed.
MaxHash == 3
MaxFills == 2
MaxLog == 4
\* Where _get_spreads is run on its own: balances -MaxBalance..MaxBalance and
\* position limits 1..MaxPosition, in size units.
MaxBalance == 12
MaxPosition == 5

\* Prices the BBO stream carries; 0 stands for a side missing in a message.
Bids == {100000, 98000}
Asks == {100000}
None == 0
PlaceOutcomes == {"resting", "filled", "rejected", "transport"}

\* ------------------------------------------------------------------ numbers
Abs(x) == IF x < 0 THEN -x ELSE x
Min2(a, b) == IF a < b THEN a ELSE b
Max2(a, b) == IF a > b THEN a ELSE b

\* Python round(): to nearest, ties to even.  n / d for n >= 0, d > 0.
RoundHalfEven(n, d) ==
    LET q == n \div d
        r == n % d
    IN  IF 2 * r < d THEN q
        ELSE IF 2 * r > d THEN q + 1
        ELSE IF q % 2 = 0 THEN q ELSE q + 1

\* round(i + f / d), f any integer.
RoundMixed(i, f, d) == (i + (f \div d)) + RoundHalfEven(f % d, d)

\* _round_price of the number i + f / d
RoundPrice(i, f, d) ==
    RoundMixed(i \div PriceTick, (i % PriceTick) * d + f, d * PriceTick) * PriceTick

\* round(usd_order_size / px, decimals), in size units
OrderSize(px) == RoundHalfEven(UsdOrderSize * SizeScale, px)

\* _get_spreads without the clamp of the ratio to [-1, 1]; SkewDirection must
\* tell it from Spreads.
SpreadsUnclamped(btc, maxpos) ==
    LET ratio == IF maxpos > 0 THEN btc ELSE 0
    IN  [buy |-> maxpos + ratio, sell |-> maxpos - ratio]

\* _get_spreads for balance btc and max_btc_position maxpos, both in size
\* units: (buy_spread, sell_spread) = spread * (1 + ratio, 1 - ratio) as
\* numerators over maxpos, in units of spread; spread itself is maxpos.  With
\* maxpos <= 0 the ratio is 0.
Spreads(btc, maxpos) ==
    LET ratio == IF maxpos > 0
                 THEN Max2(-maxpos, Min2(maxpos, btc))
                 ELSE 0
    IN  [buy |-> maxpos + ratio, sell |-> maxpos - ratio]

\* _get_spreads of the bot: numerators over SpreadInv * MaxBtcPosition.
GetSpreads(btc) == Spreads(btc, MaxBtcPosition)

\* _round_price(mid * (1 + sign * num / (SpreadInv * MaxBtcPosition))),
\* mid = mid2 / 2.  The product is taken in parts to stay within 32 bits.
QuotePrice(mid2, sign, num) ==
    LET d  == 2 * SpreadInv * MaxBtcPosition
        k  == num \div MaxBtcPosition
        r  == num % MaxBtcPosition
        t1 == k * mid2
        t2 == mid2 * r
        i  == (mid2 \div 2) + sign * ((t1 \div (2 * SpreadInv)) + (t2 \div d))
        f  == (mid2 % 2) * (d \div 2)
              + sign * ((t1 % (2 * SpreadInv)) * MaxBtcPosition + (t2 % d))
    IN  RoundPrice(i, f, d)

\* The price the bot quotes on a side at the given mid and inventory.
SidePrice(side, mid2, btc) ==
    IF side = "sell" THEN QuotePrice(mid2, 1, GetSpreads(btc).sell)
    ELSE QuotePrice(mid2, -1, GetSpreads(btc).buy)

\* _place_startup_order: _round_price(mid * (1 - 0.0001))
StartupPrice(mid2) ==
    LET d == 2 * StartupOffsetInv
    IN  RoundPrice((mid2 \div 2) - (mid2 \div d),
                   (mid2 % 2) * StartupOffsetInv - (mid2 % d), d)

\* -------------------------------------------------------------------- state
VARIABLES
    best_bid, best_ask,     \* latest BBO sides, None until seen
    price_history,          \* deque of <<timestamp, mid2>>
    first_bbo_received,
    open_orders,            \* oid -> [side, price, size, timestamp]
    base_buy_oid, base_sell_oid, sell_ref_price, extra_sell_orders,
    btc_balance, usdc_balance,
    last_crash_time,
    lock,                   \* "free", "loop" or "feed": holder of self.lock
    pc,                     \* where the control loop of run() stands
    iter,                   \* iterations of the loop begun: 0, 1, or 2 for more
    chain_orders,           \* what _fetch_open_orders returned to check_fills
    venue,                  \* orders resting at the venue: oid -> [side, px, sz]
    nextOid,                \* next order id the venue assigns
    now,                    \* time.time()
    calls,                  \* place and cancel calls issued in the latest step
    processed_fills,        \* hashes of the fills already logged
    volume_log,             \* the lines written to the volume log, each
                            \* kept as the fill it was written for
    probe,                  \* the call under way where one method is run on
                            \* its own: [fn, args, out, done]
    audit                   \* what an auditor at the venue has counted, where
                            \* one is present: [known, net]

vars == <<best_bid, best_ask, price_history, first_bbo_received, open_orders,
          base_buy_oid, base_sell_oid, sell_ref_price, extra_sell_orders,
          btc_balance, usdc_balance, last_crash_time, lock, pc, iter,
          chain_orders, venue, nextOid, now, calls, processed_fills,
          volume_log, probe, audit>>

feedVars == <<best_bid, best_ask, price_history, first_bbo_received>>
bookVars == <<open_orders, base_buy_oid, base_sell_oid, sell_ref_price,
              extra_sell_orders>>
ledgerVars == <<btc_balance, usdc_balance>>
loopVars == <<lock, pc, iter, chain_orders>>
fillVars == <<processed_fills, volume_log>>

Restrict(f, S) == [x \in S |-> f[x]]
Extend(f, k, v) == [x \in DOMAIN f \cup {k} |-> IF x = k THEN v ELSE f[x]]
Opposite(side) == IF side = "buy" THEN "sell" ELSE "buy"
SeqToSet(s) == {s[i] : i \in DOMAIN s}
FilterSeq(s, S) == SelectSeq(s, LAMBDA x : x \in S)

\* _mid_price, doubled; None when a side is missing
MidPrice2(bid, ask) == IF bid # None /\ ask # None THEN bid + ask ELSE None

\* ------------------------------------------------------------- venue calls
\* held: the caller is inside `with self.lock` when it makes the call.
PlaceCall(side, px, sz, tif, ro, oid, held) ==
    [op |-> "place", side |-> side, px |-> px, sz |-> sz, tif |-> tif,
     reduce_only |-> ro, oid |-> oid, oids |-> {}, locked |-> held]
CancelCall(oid, held) ==
    [op |-> "cancel", side |-> "", px |-> 0, sz |-> 0, tif |-> "",
     reduce_only |-> FALSE, oid |-> oid, oids |-> {}, locked |-> held]
BulkCancelCall(oids, held) ==
    [op |-> "bulk_cancel", side |-> "", px |-> 0, sz |-> 0, tif |-> "",
     reduce_only |-> FALSE, oid |-> None, oids |-> oids, locked |-> held]

\* The part of the state the order-handling methods read and write, passed
\* from one statement to the next.
World ==
    [oo |-> open_orders, bb |-> base_buy_oid, bs |-> base_sell_oid,
     ref |-> sell_ref_price, extra |-> extra_sell_orders,
     btc |-> btc_balance, usdc |-> usdc_balance,
     venue |-> venue, next |-> nextOid, calls |-> <<>>,
     held |-> lock # "free"]

\* with self.lock: the statements that follow run inside the region.
Locked(W) == [W EXCEPT !.held = TRUE]

SetWorld(W) ==
    /\ open_orders' = W.oo
    /\ base_buy_oid' = W.bb
    /\ base_sell_oid' = W.bs
    /\ sell_ref_price' = W.ref
    /\ extra_sell_orders' = W.extra
    /\ btc_balance' = W.btc
    /\ usdc_balance' = W.usdc
    /\ venue' = W.venue
    /\ nextOid' = W.next
    /\ calls' = W.calls

\* _place_order with the venue's answer `outcome`: the order id when the venue
\* reports the order resting, None otherwise.  No call for px <= 0 or size <= 0.
PlacedOid(W, px, sz, outcome) ==
    IF px <= 0 \/ sz <= 0 THEN None
    ELSE IF outcome = "resting" THEN W.next ELSE None

PlaceOrder(W, side, px, sz, outcome) ==
    IF px <= 0 \/ sz <= 0 THEN W
    ELSE LET oid == PlacedOid(W, px, sz, outcome)
         IN  [W EXCEPT
                !.calls = Append(@, PlaceCall(side, px, sz, "Gtc", FALSE, oid,
                                               W.held)),
                !.venue = IF oid # None
                          THEN Extend(@, oid, [side |-> side, px |-> px, sz |-> sz])
                          ELSE @,
                !.next = IF oid # None THEN @ + 1 ELSE @]

\* self.open_orders[oid] = {...}
Track(W, oid, side, px, sz) ==
    [W EXCEPT !.oo = Extend(@, oid, [side |-> side, price |-> px, size |-> sz,
                                     timestamp |-> now])]

\* The lines every removal repeats: pop the id, clear the references to it.
Forget(W, S) ==
    [W EXCEPT
       !.oo = Restrict(@, DOMAIN @ \ S),
       !.bs = IF @ \in S THEN None ELSE @,
       !.ref = IF W.bs \in S THEN None ELSE @,
       !.bb = IF @ \in S THEN None ELSE @,
       !.extra = FilterSeq(@, Nat \ S)]

\* cancel_order for each id of S, in turn; `ok` are those the venue cancels.
CancelOrders(W, S, ok) ==
    LET RECURSIVE Log(_, _)
        Log(log, T) ==
            IF T = {} THEN log
            ELSE LET o == CHOOSE x \in T : \A y \in T : x <= y
                 IN  Log(Append(log, CancelCall(o, W.held)), T \ {o})
    IN  [W EXCEPT !.calls = Log(@, S),
                  !.venue = Restrict(@, DOMAIN @ \ ok)]

\* _fetch_open_orders returning None; also the value of the local variable
\* chain_orders outside check_fills.
NoChain == [ok |-> FALSE, orders |-> <<>>]

\* ---------------------------------------------------------------- start-up
\* No method is run on its own.
NoProbe == [fn |-> "", args |-> <<>>, out |-> <<>>, done |-> FALSE]

\* __init__: the fields after construction, with v resting at the venue for
\* the account.
Constructed(v) ==
    /\ best_bid = None
    /\ best_ask = None
    /\ price_history = <<>>
    /\ first_bbo_received = FALSE
    /\ open_orders = <<>>
    /\ base_buy_oid = None
    /\ base_sell_oid = None
    /\ sell_ref_price = None
    /\ extra_sell_orders = <<>>
    /\ btc_balance = 0
    /\ usdc_balance = 0
    /\ last_crash_time = 0
    /\ lock = "free"
    /\ pc = "sleep"
    /\ iter = 0
    /\ chain_orders = NoChain
    /\ venue = v
    /\ nextOid = 1
    /\ now = StartTime
    /\ calls = <<>>
    /\ processed_fills = {}
    /\ volume_log = <<>>
    /\ audit = [known |-> TRUE, net |-> 0]

\* The bot constructed and about to run.
Start(v) == Constructed(v) /\ probe = NoProbe

\* A first start: nothing rests at the venue.
Init == Start(<<>>)

\* A start or a restart: nothing rests at the venue, or an order of an earlier
\* run does.  Its id is older than those the venue hands out from now on.
InitialVenues ==
    { <<>>, (-1 :> [side |-> "sell", px |-> 100041, sz |-> 100]) }

InitRestart == \E v \in InitialVenues : Start(v)

\* --------------------------------------------------------------- price feed
\* _on_bbo keeping every sample it has appended; MidSampleWindow must tell it
\* from Evict.
EvictNever(h) == h

\* while self.price_history and (now - self.price_history[0][0]) > crash_window
RECURSIVE Evict(_)
Evict(h) ==
    IF h # <<>> /\ now - h[1][1] > CrashWindow THEN Evict(Tail(h)) ELSE h

\* The ids reprice_orders cancels: relative drift of mid from the order's price
\* above reprice_threshold.
RepriceSet(oo, mid2) ==
    {o \in DOMAIN oo :
        Abs(mid2 - 2 * oo[o].price) * RepriceThresholdInv > 2 * oo[o].price}

\* reprice_orders
RepriceOrders(W, mid2, ok) ==
    IF mid2 = None THEN W
    ELSE Forget(CancelOrders(W, RepriceSet(W.oo, mid2), ok), RepriceSet(W.oo, mid2))

\* _place_startup_order
PlaceStartupOrder(W, mid2, outcome) ==
    IF mid2 = None THEN W
    ELSE LET px   == StartupPrice(mid2)
             size == OrderSize(px)
             oid  == PlacedOid(W, px, size, outcome)
             P    == PlaceOrder(W, "buy", px, size, outcome)
         IN  IF oid # None
             THEN [Track(P, oid, "buy", px, size) EXCEPT !.bb = oid]
             ELSE P

\* _on_bbo, the whole callback under the lock.  bid, ask: the message's sides.
OnBbo(bid, ask) ==
    LET nb   == IF bid # None THEN bid ELSE best_bid
        na   == IF ask # None THEN ask ELSE best_ask
        mid2 == MidPrice2(nb, na)
        hist == IF mid2 # None
                THEN Evict(Append(price_history, <<now, mid2>>))
                ELSE price_history
        seed == ~first_bbo_received /\ nb # None /\ na # None
    IN  /\ lock = "free"
        /\ Len(hist) <= MaxHist
        /\ best_bid' = nb
        /\ best_ask' = na
        /\ price_history' = hist
        /\ first_bbo_received' = (first_bbo_received \/ seed)
        /\ \E outcome \in (IF seed THEN PlaceOutcomes ELSE {"rejected"}) :
           \E ok \in SUBSET (IF DynamicRepriceOnBbo
                             THEN RepriceSet(open_orders, mid2) \cap DOMAIN venue
                             ELSE {}) :
              LET W1 == IF seed
                        THEN PlaceStartupOrder(Locked(World), mid2, outcome)
                        ELSE Locked(World)
                  W2 == IF DynamicRepriceOnBbo THEN RepriceOrders(W1, mid2, ok)
                        ELSE W1
              IN  SetWorld(W2)
        /\ UNCHANGED <<last_crash_time, loopVars, now,
                     fillVars, probe>>

\* ------------------------------------------------------------- control loop
\* The ids cancel_expired_orders cancels.
ExpiredSet(oo, mid2) ==
    {o \in DOMAIN oo :
        /\ now - oo[o].timestamp > MaxOrderAge
        /\ Abs(mid2 - 2 * oo[o].price) >= 2 * PriceExpiryThreshold}

\* cancel_expired_orders
CancelExpiredOrders(W, mid2, ok) ==
    IF mid2 = None THEN W
    ELSE Forget(CancelOrders(W, ExpiredSet(W.oo, mid2), ok), ExpiredSet(W.oo, mid2))

\* run(): the sleep ends, the loop takes the lock and runs cancel_expired_orders.
CancelExpired ==
    LET mid2 == MidPrice2(best_bid, best_ask)
    IN  /\ pc = "sleep"
        /\ lock = "free"
        /\ \E ok \in SUBSET (ExpiredSet(open_orders, mid2) \cap DOMAIN venue) :
              SetWorld(CancelExpiredOrders(Locked(World), mid2, ok))
        /\ lock' = "loop"
        /\ pc' = "reprice"
        /\ iter' = Min2(iter + 1, 2)
        /\ UNCHANGED <<feedVars, last_crash_time, chain_orders, now,
                     fillVars, probe>>

Reprice ==
    LET mid2 == MidPrice2(best_bid, best_ask)
    IN  /\ pc = "reprice"
        /\ \E ok \in SUBSET (RepriceSet(open_orders, mid2) \cap DOMAIN venue) :
              SetWorld(RepriceOrders(World, mid2, ok))
        /\ pc' = "ensure"
        /\ UNCHANGED <<feedVars, last_crash_time, lock, iter, chain_orders, now,
                       fillVars, probe>>

\* The cooldown test with its comparison turned round; CooldownNoPlace must
\* tell it from InCooldown.
InCooldownInverted(t, last) == (t - last) >= CooldownAfterCrash

\* (now - self.last_crash_time) < self.cooldown_after_crash
InCooldown(t, last) == (t - last) < CooldownAfterCrash

\* _place_additional_sell_orders; n: how many of its placements the venue
\* reports resting before one is not.
RECURSIVE PlaceAdditionalSellOrders(_, _, _, _)
PlaceAdditionalSellOrders(W, mid2, levels_done, n) ==
    IF ExtraSellLevels <= 0 \/ W.ref = None THEN W
    ELSE IF levels_done < ExtraSellLevels
            /\ (2 * W.ref - mid2) * SpreadInv >= (levels_done + 1) * 2 * mid2
    THEN LET step == (levels_done + 1) * mid2
             px   == RoundPrice(W.ref + (step \div SpreadInv),
                                step % SpreadInv, SpreadInv)
             sz   == OrderSize(px)
             out  == IF n > 0 THEN "resting" ELSE "rejected"
             oid  == PlacedOid(W, px, sz, out)
             P    == PlaceOrder(W, "sell", px, sz, out)
         IN  IF oid # None
             THEN PlaceAdditionalSellOrders(
                      [Track(P, oid, "sell", px, sz)
                          EXCEPT !.extra = Append(@, oid)],
                      mid2, levels_done + 1, n - 1)
             ELSE P
    ELSE W

\* ensure_orders; ob, os: the venue's answers to the buy and the sell.
EnsureOrders(W, mid2, ob, os, n) ==
    IF InCooldown(now, last_crash_time) THEN W
    ELSE IF mid2 = None THEN W
    ELSE LET spreads == GetSpreads(W.btc)
             buy_px  == QuotePrice(mid2, -1, spreads.buy)
             buy_sz  == OrderSize(buy_px)
             boid    == PlacedOid(W, buy_px, buy_sz, ob)
             PB      == PlaceOrder(W, "buy", buy_px, buy_sz, ob)
             W1      == IF W.bb = None \/ W.bb \notin DOMAIN W.oo
                        THEN IF boid # None
                             THEN Track([PB EXCEPT !.bb = boid],
                                        boid, "buy", buy_px, buy_sz)
                             ELSE PB
                        ELSE W
             sell_px == QuotePrice(mid2, 1, spreads.sell)
             sell_sz == OrderSize(sell_px)
             soid    == PlacedOid(W1, sell_px, sell_sz, os)
             PS      == PlaceOrder(W1, "sell", sell_px, sell_sz, os)
             W2      == IF W1.bs = None \/ W1.bs \notin DOMAIN W1.oo
                        THEN IF soid # None
                             THEN Track([PS EXCEPT !.bs = soid,
                                                   !.ref = sell_px,
                                                   !.extra = <<>>],
                                        soid, "sell", sell_px, sell_sz)
                             ELSE PS
                        ELSE W1
         IN  PlaceAdditionalSellOrders(W2, mid2, Len(W2.extra), n)

Ensure ==
    LET mid2 == MidPrice2(best_bid, best_ask)
    IN  /\ pc = "ensure"
        /\ \E ob, os \in PlaceOutcomes : \E n \in 0..ExtraSellLevels :
              SetWorld(EnsureOrders(World, mid2, ob, os, n))
        /\ pc' = "crash"
        /\ UNCHANGED <<feedVars, last_crash_time, lock, iter, chain_orders, now,
                       fillVars, probe>>

\* ----------------------------------------------------------- crash detection
SeqMax(h) == CHOOSE m \in {h[i][2] : i \in DOMAIN h} :
                \A i \in DOMAIN h : h[i][2] <= m

\* The crash test with a strict comparison, which misses a drop of exactly
\* crash_threshold; CrashTrip must tell it from CrashDetected.
CrashDetectedStrict(h) ==
    /\ Len(h) >= 2
    /\ SeqMax(h) > 0
    /\ (SeqMax(h) - h[Len(h)][2]) * 100 > CrashThresholdPct * SeqMax(h)

\* check_crash: at least two samples, highest > 0, and
\* (highest - latest) / highest >= crash_threshold
CrashDetected(h) ==
    /\ Len(h) >= 2
    /\ SeqMax(h) > 0
    /\ (SeqMax(h) - h[Len(h)][2]) * 100 >= CrashThresholdPct * SeqMax(h)

\* cancel_all_open_orders; ok: the venue carries the bulk cancel out.
CancelAllOpenOrders(W, ok) ==
    IF DOMAIN W.oo = {} THEN W
    ELSE Forget([W EXCEPT
                   !.calls = Append(@, BulkCancelCall(DOMAIN W.oo, W.held)),
                   !.venue = IF ok THEN Restrict(@, DOMAIN @ \ DOMAIN W.oo)
                             ELSE @],
                DOMAIN W.oo)

\* The flatten sell booked in the ledger as executed when it is sent;
\* LedgerFrame must tell it from FlattenOrder.
FlattenOrderBooked(W) ==
    IF W.btc > 0
    THEN [W EXCEPT !.calls = Append(@, PlaceCall("sell", best_bid, W.btc, "Ioc",
                                                 TRUE, None, W.held)),
                   !.usdc = @ + W.btc * best_bid,
                   !.btc = 0]
    ELSE W

\* check_crash, lines 613-628: the IOC reduce-only sell of the whole balance
FlattenOrder(W) ==
    IF W.btc > 0
    THEN LET px == IF best_bid # None THEN best_bid
                   ELSE price_history[Len(price_history)][2] \div 2
         IN  [W EXCEPT !.calls = Append(@, PlaceCall("sell", px, W.btc, "Ioc",
                                                     TRUE, None, W.held))]
    ELSE W

\* The with block of run() never left: check_fills would be called inside
\* it.  NoReentry must tell it from LeaveRegion.
StayInRegion(holder) == holder

\* run() lines 639-644: the with block ends after check_crash, before
\* check_fills is called.
LeaveRegion(holder) == "free"

\* check_crash, then run() leaves the lock.
CheckCrash ==
    /\ pc = "crash"
    /\ IF CrashDetected(price_history)
       THEN /\ \E ok \in BOOLEAN :
                  SetWorld(FlattenOrder(CancelAllOpenOrders(World, ok)))
            /\ price_history' = <<>>
            /\ last_crash_time' = now
       ELSE /\ SetWorld(World)
            /\ UNCHANGED <<price_history, last_crash_time>>
    /\ lock' = LeaveRegion(lock)
    /\ pc' = "fetch"
    /\ UNCHANGED <<best_bid, best_ask, first_bbo_received, iter, chain_orders, now,
                 fillVars, probe>>

\* ------------------------------------------------------------ reconciliation
\* _fetch_open_orders: the venue's list keyed by oid, or None on an exception.
Fetch ==
    /\ pc = "fetch"
    /\ \/ chain_orders' = [ok |-> TRUE, orders |-> venue]
       \/ chain_orders' = NoChain
    /\ pc' = "reconcile"
    /\ calls' = <<>>
    /\ UNCHANGED <<feedVars, bookVars, ledgerVars, last_crash_time, lock, iter,
                   venue, nextOid, now, fillVars, probe>>

\* The early return taken for an empty listing alone, a failed query read as
\* a listing of no orders; TransportErrorLeavesState must tell it from
\* SkipReconcile.
SkipOnEmptyListing(chain) == chain.ok /\ DOMAIN chain.orders = {}

\* check_fills line 344: `if not chain_orders`, None or an empty dict
SkipReconcile(chain) == ~chain.ok \/ DOMAIN chain.orders = {}

\* The partial-fill test as a test for any difference; SizeNeverIncreases
\* must tell it from PartialFill.
SizeDiffers(remain, size) == remain # size

\* check_fills line 354: remain < info["size"]
PartialFill(remain, size) == remain < size

\* _update_inventory
UpdateInventory(W, side, filled_amt, fill_price) ==
    IF side = "buy"
    THEN [W EXCEPT !.btc = @ + filled_amt, !.usdc = @ - filled_amt * fill_price]
    ELSE [W EXCEPT !.btc = @ - filled_amt, !.usdc = @ + filled_amt * fill_price]

\* check_fills lines 363-387 and 393-417: the opposite-side order
PlaceOpposite(W, new_side, mid2, outcome) ==
    IF mid2 = None THEN W
    ELSE LET px     == SidePrice(new_side, mid2, W.btc)
             new_sz == OrderSize(px)
             new_id == PlacedOid(W, px, new_sz, outcome)
             P      == PlaceOrder(W, new_side, px, new_sz, outcome)
             T      == Track(P, new_id, new_side, px, new_sz)
         IN  IF new_id = None THEN P
             ELSE IF new_side = "sell"
             THEN [T EXCEPT !.bs = new_id, !.ref = px, !.extra = <<>>]
             ELSE [T EXCEPT !.bb = new_id]

\* One pass of the loop of check_fills, for local order oid.
CheckOne(W, oid, chain, mid2, outcome) ==
    LET info == W.oo[oid]
    IN  IF oid \in DOMAIN chain
        THEN IF PartialFill(chain[oid].sz, info.size)
             THEN PlaceOpposite(
                      UpdateInventory([W EXCEPT !.oo[oid].size = chain[oid].sz],
                                      info.side, info.size - chain[oid].sz,
                                      info.price),
                      Opposite(info.side), mid2, outcome)
             ELSE W
        ELSE Forget(PlaceOpposite(
                        UpdateInventory(W, info.side, info.size, info.price),
                        Opposite(info.side), mid2, outcome),
                    {oid})

\* for oid, info in list(self.open_orders.items()): in insertion order, which
\* is the order of the ids.
RECURSIVE CheckLoop(_, _, _, _, _)
CheckLoop(W, todo, chain, mid2, outcomes) ==
    IF todo = {} THEN W
    ELSE LET o == CHOOSE x \in todo : \A y \in todo : x <= y
         IN  CheckLoop(CheckOne(W, o, chain, mid2, outcomes[o]),
                       todo \ {o}, chain, mid2, outcomes)

\* check_fills lines 427-433
Intersect(W, chain) ==
    LET oo == Restrict(W.oo, DOMAIN W.oo \cap DOMAIN chain)
    IN  [W EXCEPT
           !.oo = oo,
           !.bs = IF @ # None /\ @ \notin DOMAIN oo THEN None ELSE @,
           !.ref = IF W.bs # None /\ W.bs \notin DOMAIN oo THEN None ELSE @,
           !.bb = IF @ # None /\ @ \notin DOMAIN oo THEN None ELSE @,
           !.extra = FilterSeq(@, DOMAIN oo)]

\* The local orders whose pass places an opposite-side order.
Placers(oo, chain, mid2) ==
    {o \in DOMAIN oo :
        /\ mid2 # None
        /\ o \in DOMAIN chain => PartialFill(chain[o].sz, oo[o].size)}

\* ------------------------------------------------------------- fill logging
\* coin = self.market.split("/")[0], market = "UBTC/USDC"
BaseCoin == "UBTC"

\* A fill of a user_fills response, by what _record_fills reads of it.
Fills == [hash : 1..MaxHash, coin : {BaseCoin, "UETH"}]

RECURSIVE SeqsUpTo(_, _)
SeqsUpTo(S, n) ==
    IF n = 0 THEN {<<>>}
    ELSE LET shorter == SeqsUpTo(S, n - 1)
         IN  shorter \cup {Append(q, x) : q \in shorter, x \in S}

\* info.user_fills raising
FillsUnavailable == [ok |-> FALSE, fills |-> <<>>]

\* What info.user_fills may answer: an exception, or a list of fills with
\* repeats in any order.
FillResponses ==
    {FillsUnavailable} \cup {[ok |-> TRUE, fills |-> q] : q \in SeqsUpTo(Fills, MaxFills)}

\* _record_fills line 445: f.get("coin") != coin
ForeignCoin(f) == f.coin # BaseCoin

\* The membership test left out; FillLogDedup must tell it from
\* AlreadyProcessed.
ProcessedNever(h, seen) == FALSE

\* _record_fills line 448: h in self.processed_fills
AlreadyProcessed(h, seen) == h \in seen

\* The loop of _record_fills over the response; L: the set and the log so far.
RECURSIVE RecordLoop(_, _)
RecordLoop(L, fills) ==
    IF fills = <<>> THEN L
    ELSE LET f == Head(fills)
         IN  IF ForeignCoin(f) \/ AlreadyProcessed(f.hash, L.seen)
             THEN RecordLoop(L, Tail(fills))
             ELSE RecordLoop([seen |-> L.seen \cup {f.hash},
                              log |-> Append(L.log, f)],
                             Tail(fills))

\* _record_fills with the venue's answer resp.
RecordFills(resp) ==
    LET L == IF resp.ok
             THEN RecordLoop([seen |-> processed_fills, log |-> volume_log],
                             resp.fills)
             ELSE [seen |-> processed_fills, log |-> volume_log]
    IN  /\ processed_fills' = L.seen
        /\ volume_log' = L.log

\* check_fills after the fetch: skip, or reconcile under the lock; then
\* _record_fills with the answer resp to its query.
Reconcile(resp) ==
    LET mid2  == MidPrice2(best_bid, best_ask)
        chain == chain_orders.orders
    IN  /\ pc = "reconcile"
        /\ lock = "free"
        /\ IF SkipReconcile(chain_orders)
           THEN SetWorld(World)
           ELSE \E out \in [Placers(open_orders, chain, mid2) -> PlaceOutcomes] :
                  LET outcomes == [o \in DOMAIN open_orders |->
                                     IF o \in DOMAIN out THEN out[o]
                                     ELSE "rejected"]
                      W == Intersect(CheckLoop(Locked(World), DOMAIN open_orders,
                                               chain, mid2, outcomes),
                                     chain)
                  IN  SetWorld(W)
        /\ RecordFills(resp)
        /\ pc' = "sleep"
        /\ chain_orders' = NoChain
        /\ UNCHANGED <<feedVars, last_crash_time, lock, iter, now, probe>>

\* -------------------------------------------------------------- environment
\* The bot reads the venue's orders in Fetch alone, and what its own calls do
\* to them is chosen with each call; so the venue's own steps are taken where
\* they are next read, before the fetch, and time passes during the sleep.
\* The sizes of the orders the bot does not track are never read.
\* The venue executes part of a resting order, or all of it.
VenueFill(oid, full) ==
    /\ pc = "fetch"
    /\ oid \in DOMAIN venue
    /\ IF full
       THEN venue' = Restrict(venue, DOMAIN venue \ {oid})
       ELSE /\ oid \in DOMAIN open_orders
            /\ venue[oid].sz > PartialQty
            /\ venue' = [venue EXCEPT ![oid].sz = @ - PartialQty]
    /\ calls' = <<>>
    /\ UNCHANGED <<feedVars, bookVars, ledgerVars, last_crash_time, loopVars,
                   nextOid, now, fillVars, probe>>

\* The venue or the account owner cancels a resting order (cancel_orders.py).
VenueCancel(oid) ==
    /\ pc = "fetch"
    /\ oid \in DOMAIN venue
    /\ venue' = Restrict(venue, DOMAIN venue \ {oid})
    /\ calls' = <<>>
    /\ UNCHANGED <<feedVars, bookVars, ledgerVars, last_crash_time, loopVars,
                   nextOid, now, fillVars, probe>>

\* The account owner raises the size of a resting order above the size the bot
\* has recorded for it.
VenueModify(oid) ==
    /\ pc = "fetch"
    /\ oid \in DOMAIN venue
    /\ oid \in DOMAIN open_orders
    /\ venue[oid].sz = open_orders[oid].size
    /\ venue' = [venue EXCEPT ![oid].sz = @ + ModifyQty]
    /\ calls' = <<>>
    /\ UNCHANGED <<feedVars, bookVars, ledgerVars, last_crash_time, loopVars,
                   nextOid, now, fillVars, probe>>

\* time.sleep(check_interval) and the time between the feed's messages
Advance(dt) ==
    /\ pc = "sleep"
    /\ now + dt <= StartTime + MaxSpan
    /\ now' = now + dt
    /\ calls' = <<>>
    /\ UNCHANGED <<feedVars, bookVars, ledgerVars, last_crash_time, loopVars,
                   venue, nextOid, fillVars, probe>>

\* No auditor is present: nothing is counted.
Unaudited == UNCHANGED audit

\* The venue has handed out no id beyond 1..n.
WithinIds(n) == nextOid' <= n + 1

\* _record_fills touches nothing but its set of hashes and the log, and the
\* order logic reads neither: Spec and SpecSteady take the user_fills query as
\* failing, and SpecFills follows the fill log alone.

Next ==
    \/ \E bid \in Bids \cup {None}, ask \in Asks \cup {None} :
          OnBbo(bid, ask) /\ WithinIds(MaxOid) /\ Unaudited
    \/ CancelExpired /\ Unaudited
    \/ Reprice /\ Unaudited
    \/ Ensure /\ WithinIds(MaxOid) /\ Unaudited
    \/ CheckCrash /\ Unaudited
    \/ Fetch /\ Unaudited
    \/ Reconcile(FillsUnavailable) /\ WithinIds(MaxOid) /\ Unaudited
    \/ \E oid \in DOMAIN venue, full \in BOOLEAN : VenueFill(oid, full) /\ Unaudited
    \/ \E oid \in DOMAIN venue : VenueCancel(oid) /\ Unaudited
    \/ \E oid \in DOMAIN venue : VenueModify(oid) /\ Unaudited
    \/ Advance(TimeStep) /\ Unaudited

Spec == Init /\ [][Next]_vars

\* run() loops forever: wherever the loop stands, its step is enabled (the
\* feed holds the lock within a step only) and is eventually taken.  The steps
\* of Next that move pc are the loop's.  Nothing obliges the feed, the clock
\* or the venue's other users to act.
NextPc(p) ==
    CASE p = "sleep"     -> "reprice"
      [] p = "reprice"   -> "ensure"
      [] p = "ensure"    -> "crash"
      [] p = "crash"     -> "fetch"
      [] p = "fetch"     -> "reconcile"
      [] p = "reconcile" -> "sleep"

LoopMoves == pc' = NextPc(pc)

SpecLive == Init /\ [][Next]_vars /\ WF_pc(LoopMoves)

\* A steady market: the BBO settles at 100000 / 100002 and the clock stands
\* still; more order ids, and the process may be a restart.
SteadyBids == {100000}
SteadyAsks == {100002}

NextSteady ==
    \/ \E bid \in SteadyBids \cup {None}, ask \in SteadyAsks \cup {None} :
          OnBbo(bid, ask) /\ WithinIds(SteadyMaxOid) /\ Unaudited
    \/ CancelExpired /\ Unaudited
    \/ Reprice /\ Unaudited
    \/ Ensure /\ WithinIds(SteadyMaxOid) /\ Unaudited
    \/ CheckCrash /\ Unaudited
    \/ Fetch /\ Unaudited
    \/ Reconcile(FillsUnavailable) /\ WithinIds(SteadyMaxOid) /\ Unaudited
    \/ \E oid \in DOMAIN venue, full \in BOOLEAN : VenueFill(oid, full) /\ Unaudited
    \/ \E oid \in DOMAIN venue : VenueCancel(oid) /\ Unaudited
    \/ \E oid \in DOMAIN venue : VenueModify(oid) /\ Unaudited

SpecSteady == InitRestart /\ [][NextSteady]_vars

\* A feed whose one-sided updates cross the book: the bid moves to 100004
\* while the ask still reads 100002.  The clock stands still.
CrossingBids == {100000, 100004}
CrossingAsks == {100002}

NextCrossing ==
    \/ \E bid \in CrossingBids \cup {None}, ask \in CrossingAsks \cup {None} :
          OnBbo(bid, ask) /\ WithinIds(MaxOid) /\ Unaudited
    \/ CancelExpired /\ Unaudited
    \/ Reprice /\ Unaudited
    \/ Ensure /\ WithinIds(MaxOid) /\ Unaudited
    \/ CheckCrash /\ Unaudited
    \/ Fetch /\ Unaudited
    \/ Reconcile(FillsUnavailable) /\ WithinIds(MaxOid) /\ Unaudited
    \/ \E oid \in DOMAIN venue, full \in BOOLEAN : VenueFill(oid, full) /\ Unaudited
    \/ \E oid \in DOMAIN venue : VenueCancel(oid) /\ Unaudited
    \/ \E oid \in DOMAIN venue : VenueModify(oid) /\ Unaudited

SpecCrossing == Init /\ [][NextCrossing]_vars

\* The steady market with an auditor at the venue, who counts the base
\* quantity the venue executes on the bot's orders, buys positive and sells
\* negative.  The account owner leaves the orders alone.
\* A placement the venue reports resting has executed nothing.  Of a place
\* call that did not rest (filled at once, rejected, failed, the IOC sell) the
\* call does not tell what was executed: the count is void from then on.
AuditCalls ==
    audit' = IF \E i \in DOMAIN calls' :
                    calls'[i].op = "place" /\ calls'[i].oid = None
             THEN [known |-> FALSE, net |-> 0]
             ELSE audit

\* The venue executes part or all of order oid.
AuditFill(oid) ==
    LET left == IF oid \in DOMAIN venue' THEN venue'[oid].sz ELSE 0
        qty  == venue[oid].sz - left
    IN  audit' = IF audit.known
                 THEN [audit EXCEPT !.net = IF venue[oid].side = "buy"
                                            THEN @ + qty ELSE @ - qty]
                 ELSE audit

NextLedger ==
    \/ \E bid \in SteadyBids \cup {None}, ask \in SteadyAsks \cup {None} :
          OnBbo(bid, ask) /\ WithinIds(LedgerMaxOid) /\ AuditCalls
    \/ CancelExpired /\ AuditCalls
    \/ Reprice /\ AuditCalls
    \/ Ensure /\ WithinIds(LedgerMaxOid) /\ AuditCalls
    \/ CheckCrash /\ AuditCalls
    \/ Fetch /\ Unaudited
    \/ Reconcile(FillsUnavailable) /\ WithinIds(LedgerMaxOid) /\ AuditCalls
    \/ \E oid \in DOMAIN venue, full \in BOOLEAN :
          VenueFill(oid, full) /\ AuditFill(oid)
    \/ \E oid \in DOMAIN venue : VenueCancel(oid) /\ Unaudited

SpecLedger == Init /\ [][NextLedger]_vars

\* The steady market with a venue that may acknowledge a placement under an
\* order id it has handed out before and that the bot still tracks; it does
\* so before the first ensure_orders, if at all.
VenueRepeatsId(oid) ==
    /\ pc = "ensure"
    /\ iter = 1
    /\ oid \in DOMAIN open_orders
    /\ nextOid # oid
    /\ nextOid' = oid
    /\ calls' = <<>>
    /\ UNCHANGED <<feedVars, bookVars, ledgerVars, last_crash_time, loopVars,
                   venue, now, fillVars, probe>>

NextRepeat ==
    \/ \E bid \in SteadyBids \cup {None}, ask \in SteadyAsks \cup {None} :
          OnBbo(bid, ask) /\ WithinIds(MaxOid + 1) /\ Unaudited
    \/ CancelExpired /\ Unaudited
    \/ Reprice /\ Unaudited
    \/ Ensure /\ WithinIds(MaxOid + 1) /\ Unaudited
    \/ CheckCrash /\ Unaudited
    \/ Fetch /\ Unaudited
    \/ Reconcile(FillsUnavailable) /\ WithinIds(MaxOid + 1) /\ Unaudited
    \/ \E oid \in DOMAIN venue, full \in BOOLEAN : VenueFill(oid, full) /\ Unaudited
    \/ \E oid \in DOMAIN venue : VenueCancel(oid) /\ Unaudited
    \/ \E oid \in DOMAIN venue : VenueModify(oid) /\ Unaudited
    \/ \E oid \in DOMAIN open_orders : VenueRepeatsId(oid) /\ Unaudited

SpecRepeat == Init /\ [][NextRepeat]_vars

\* The control loop with a silent feed, and every answer to user_fills.
NextFills ==
    \/ CancelExpired /\ Unaudited
    \/ Reprice /\ Unaudited
    \/ Ensure /\ Unaudited
    \/ CheckCrash /\ Unaudited
    \/ Fetch /\ Unaudited
    \/ \E resp \in FillResponses :
          Reconcile(resp) /\ Len(volume_log') <= MaxLog /\ Unaudited

SpecFills == Init /\ [][NextFills]_vars

\* ------------------------------------------------------ methods on their own
\* _get_spreads for any balance and any positive max_btc_position.
SpreadsInputs ==
    {[fn |-> "_get_spreads", args |-> <<btc, maxpos>>, out |-> <<>>,
      done |-> FALSE] : btc \in -MaxBalance..MaxBalance, maxpos \in 1..MaxPosition}

InitSpreads == Constructed(<<>>) /\ probe \in SpreadsInputs

CallGetSpreads ==
    /\ probe.fn = "_get_spreads"
    /\ ~probe.done
    /\ LET r == Spreads(probe.args[1], probe.args[2])
       IN  probe' = [probe EXCEPT !.out = <<r.buy, r.sell>>, !.done = TRUE]
    /\ UNCHANGED <<feedVars, bookVars, ledgerVars, last_crash_time, loopVars,
                   venue, nextOid, now, calls, fillVars, audit>>

SpecSpreads == InitSpreads /\ [][CallGetSpreads]_vars

\* cancel_expired_orders for one resting buy at RestingPrice, of any age and
\* any deviation from the mid near the two thresholds: the loop wakes up
\* with the order in its book, placed at StartTime, after a crash trip has
\* emptied the samples.
RestingPrice == 99500

ExpiryAges == (MaxOrderAge - AgeMargin)..(MaxOrderAge + AgeMargin)
ExpiryMids ==
    {2 * RestingPrice + 2 * PriceExpiryThreshold + d : d \in -DevMargin..DevMargin}

InitExpiry ==
    \E age \in ExpiryAges, mid2 \in ExpiryMids :
       /\ best_bid = mid2 \div 2
       /\ best_ask = mid2 - mid2 \div 2
       /\ price_history = <<>>
       /\ first_bbo_received = TRUE
       /\ open_orders = (1 :> [side |-> "buy", price |-> RestingPrice,
                               size |-> OrderSize(RestingPrice),
                               timestamp |-> StartTime])
       /\ base_buy_oid = 1
       /\ base_sell_oid = None
       /\ sell_ref_price = None
       /\ extra_sell_orders = <<>>
       /\ btc_balance = 0
       /\ usdc_balance = 0
       /\ last_crash_time = StartTime
       /\ lock = "free"
       /\ pc = "sleep"
       /\ iter = 2
       /\ chain_orders = NoChain
       /\ venue = (1 :> [side |-> "buy", px |-> RestingPrice,
                         sz |-> OrderSize(RestingPrice)])
       /\ nextOid = 2
       /\ now = StartTime + age
       /\ calls = <<>>
       /\ processed_fills = {}
       /\ volume_log = <<>>
       /\ audit = [known |-> TRUE, net |-> 0]
       /\ probe = NoProbe

NextExpiry == CancelExpired /\ Unaudited

SpecExpiry == InitExpiry /\ [][NextExpiry]_vars

\* ------------------------------------------------------------ Python floats
\* A positive float (IEEE-754 binary64): the bits m of its significand, most
\* significant first and m[1] = 1, and the exponent e of m[1]; its value is
\* m[1] * 2^e + m[2] * 2^(e-1) + ...  Only normal numbers occur.
Precision == 53

Zeros(n) == [i \in 1..n |-> 0]

\* num / den brought into [1, 2): num / den * 2^e is the ratio asked for.
RECURSIVE Scale(_, _, _)
Scale(num, den, e) ==
    IF num >= 2 * den THEN Scale(num, 2 * den, e + 1)
    ELSE IF num < den THEN Scale(2 * num, den, e - 1)
    ELSE [num |-> num, den |-> den, e |-> e]

\* Long division ChunkBits bits at a time; Precision - 1 is a multiple of it.
ChunkBits == 13

\* q < 2^ChunkBits as a string of ChunkBits bits.
Bits(q) == [i \in 1..ChunkBits |-> (q \div 2^(ChunkBits - i)) % 2]

\* The first n * ChunkBits bits of rem / den behind the binary point
\* (rem < den), and the remainder they leave.
RECURSIVE QuotientBits(_, _, _)
QuotientBits(rem, den, n) ==
    IF n = 0 THEN [bits |-> <<>>, rem |-> rem]
    ELSE LET r == QuotientBits((rem * 2^ChunkBits) % den, den, n - 1)
         IN  [bits |-> Bits((rem * 2^ChunkBits) \div den) \o r.bits,
              rem  |-> r.rem]

\* bits + 1, and the carry out of the first bit: a bit flips when every bit
\* behind it is 1.
Increment(bits) ==
    LET n        == Len(bits)
        Flips(i) == \A j \in (i + 1)..n : bits[j] = 1
    IN  [bits  |-> [i \in 1..n |-> IF Flips(i) THEN 1 - bits[i] ELSE bits[i]],
         carry |-> IF \A j \in 1..n : bits[j] = 1 THEN 1 ELSE 0]

\* The float with exponent e and significand bits, rounded up if `up`.
RoundBits(e, bits, up) ==
    IF ~up THEN [e |-> e, m |-> bits]
    ELSE LET r == Increment(bits)
         IN  IF r.carry = 1 THEN [e |-> e + 1, m |-> <<1>> \o Zeros(Precision - 1)]
             ELSE [e |-> e, m |-> r.bits]

\* The float nearest to n / d (n, d > 0), ties to even: what float("0.0004")
\* and round(x, 5) return for the decimal n / 10^5.
FloatOf(n, d) ==
    LET s    == Scale(n, d, 0)
        q    == QuotientBits(s.num - s.den, s.den, (Precision - 1) \div ChunkBits)
        bits == <<1>> \o q.bits
        up   == \/ 2 * q.rem > s.den
                \/ 2 * q.rem = s.den /\ bits[Precision] = 1
    IN  RoundBits(s.e, bits, up)

\* A - B for bit strings of one length, A >= B.  Bit i lends to the bits
\* behind it when, read from bit i + 1 on, A is below B.
SubBits(A, B) ==
    LET n         == Len(A)
        Borrow(i) == \E j \in (i + 1)..n :
                        /\ A[j] < B[j]
                        /\ \A k \in (i + 1)..(j - 1) : A[k] = B[k]
    IN  [i \in 1..n |->
           (A[i] + B[i] + (IF Borrow(i) THEN 1 ELSE 0)) % 2]

\* The number of zeros before the first 1 of bits (which has one).
LeadingZeros(bits) ==
    (CHOOSE i \in 1..Len(bits) :
        bits[i] = 1 /\ \A j \in 1..(i - 1) : bits[j] = 0) - 1

\* a - b for floats a > b > 0: the exact difference, rounded to nearest, ties
\* to even.
FloatSub(a, b) ==
    LET shift == a.e - b.e
        D     == SubBits(a.m \o Zeros(shift), Zeros(shift) \o b.m)
        z     == LeadingZeros(D)
        S     == SubSeq(D, z + 1, Len(D)) \o Zeros(Precision)
        bits  == SubSeq(S, 1, Precision)
        tail  == SubSeq(D, z + 1 + Precision, Len(D))
        up    == /\ tail # <<>>
                 /\ tail[1] = 1
                 /\ \/ \E i \in 2..Len(tail) : tail[i] = 1
                    \/ bits[Precision] = 1
    IN  RoundBits(a.e - z, bits, up)

\* The size check_crash sends after one partial fill of a buy order: the
\* order's size is round(usd_order_size / px, decimals), the venue lists
\* `remain`, check_fills books filled = size - remain on a balance of 0.0
\* (0.0 + x is x), and check_crash passes self.btc_balance as it stands.
\* size and remain are in units of 10^-decimals.
\* The sizes of the seed buy at the mids 99000 and 100001.
OrderSizes == {OrderSize(98990), OrderSize(99991)}

\* check_fills, line 354: a partial fill is a listed size below the local one.
FlattenSizeInputs ==
    {p \in [fn : {"flatten size"}, args : OrderSizes \X (1..MaxRemain),
            out : {<<>>}, done : {FALSE}] : p.args[2] < p.args[1]}

InitFlattenSize == Constructed(<<>>) /\ probe \in FlattenSizeInputs

CallFlattenSize ==
    /\ probe.fn = "flatten size"
    /\ ~probe.done
    /\ LET size   == FloatOf(probe.args[1], SizeScale)
           remain == FloatOf(probe.args[2], SizeScale)
           filled == FloatSub(size, remain)
       IN  probe' = [probe EXCEPT !.out = <<filled>>, !.done = TRUE]
    /\ UNCHANGED <<feedVars, bookVars, ledgerVars, last_crash_time, loopVars,
                   venue, nextOid, now, calls, fillVars, audit>>

SpecFlattenSize == InitFlattenSize /\ [][CallFlattenSize]_vars

\* ================================================================ properties
\* The step that ends a reconcile cycle: check_fills returns.
ReconcileStep == pc = "reconcile" /\ pc' = "sleep"

\* The step in which check_crash runs.
CrashStep == pc = "crash" /\ pc' = "fetch"

\* The step in which ensure_orders runs.
EnsureStep == pc = "ensure" /\ pc' = "crash"

\* No order was placed between the query and the reconciliation: the snapshot
\* lists every local order that rests at the venue.
SnapshotCurrent ==
    \A o \in DOMAIN open_orders \cap DOMAIN venue :
       o \in DOMAIN chain_orders.orders

IsRestingPlace(c) == c.op = "place" /\ c.tif = "Gtc"

SideOrders(oo, side) == {o \in DOMAIN oo : oo[o].side = side}

\* C1.  No ghost orders: at the end of every reconcile cycle whose open-orders
\* query did not fail, every id in the local book is in the snapshot fetched in
\* that cycle, also when the snapshot lists no order at all.  (Cycles in which
\* the feed placed the seed after the query are left aside.)
NoGhostOrders ==
    [][ReconcileStep /\ chain_orders.ok /\ SnapshotCurrent
          => DOMAIN open_orders' \subseteq DOMAIN chain_orders.orders]_vars

\* C2.  Local order lifecycle: an order the Reconciler places in a cycle and
\* the venue acknowledges as resting is in the local book at the end of that
\* cycle.  (Cycles in which the feed placed the seed after the query are left
\* aside.)
ReplacementTracked ==
    [][ReconcileStep /\ SnapshotCurrent
          => \A i \in DOMAIN calls' :
                IsRestingPlace(calls'[i]) /\ calls'[i].oid # None
                   => calls'[i].oid \in DOMAIN open_orders']_vars

\* C3.  Cooldown: while now - last_crash_time < cooldown_after_crash no step of
\* the agent (tick, reconcile cycle, feed callback) issues a place call for a
\* resting (GTC) order.
CooldownNoPlace ==
    [][now - last_crash_time < CooldownAfterCrash
          => \A i \in DOMAIN calls' : ~IsRestingPlace(calls'[i])]_vars

\* C3 happens: ensure_orders has just run inside the cooldown with a mid price
\* and with no buy open, and has placed nothing.
CooldownEnsureRan ==
    /\ pc = "crash"
    /\ now - last_crash_time < CooldownAfterCrash
    /\ best_bid # None /\ best_ask # None
    /\ base_buy_oid = None
    /\ calls = <<>>

\* drop >= crash_threshold over the samples h: (max - latest) / max >= 1%.
DropAtLeastThreshold(h) ==
    /\ h # <<>>
    /\ \E i \in DOMAIN h :
          /\ \A j \in DOMAIN h : h[j][2] <= h[i][2]
          /\ h[i][2] > 0
          /\ (h[i][2] - h[Len(h)][2]) * 100 >= CrashThresholdPct * h[i][2]

\* C4.  Crash trip: when check_crash runs with drop >= crash_threshold, on its
\* return (a) the local book is empty and, if it held orders, one bulk cancel
\* naming all of them has been issued, (b) an IOC reduce-only sell of the whole
\* base balance at the best bid has been submitted iff the balance is positive,
\* (c) the sample sequence is empty, (d) last_crash_time is the current time;
\* with drop < crash_threshold it issues no call and changes none of these.
CrashTrip ==
    [][CrashStep
          => IF DropAtLeastThreshold(price_history)
             THEN /\ open_orders' = <<>>
                  /\ DOMAIN open_orders # {}
                        => \E i \in DOMAIN calls' :
                              /\ calls'[i].op = "bulk_cancel"
                              /\ calls'[i].oids = DOMAIN open_orders
                  /\ btc_balance > 0
                        <=> \E i \in DOMAIN calls' :
                               /\ calls'[i].op = "place"
                               /\ calls'[i].tif = "Ioc"
                               /\ calls'[i].reduce_only
                               /\ calls'[i].side = "sell"
                               /\ calls'[i].sz = btc_balance
                               /\ calls'[i].px = best_bid
                  /\ price_history' = <<>>
                  /\ last_crash_time' = now
             ELSE /\ calls' = <<>>
                  /\ UNCHANGED <<open_orders, price_history, last_crash_time,
                                 venue>>]_vars

\* C4 happens: check_crash has just tripped with orders in the book and a
\* positive balance, and has issued the bulk cancel and the IOC sell.
CrashTripped ==
    /\ pc = "fetch"
    /\ last_crash_time = now
    /\ price_history = <<>>
    /\ \E i \in DOMAIN calls : calls[i].op = "bulk_cancel"
    /\ \E i \in DOMAIN calls : calls[i].op = "place" /\ calls[i].tif = "Ioc"

\* C5.  Transport error: a reconcile cycle whose open-orders query failed
\* leaves the local book, the baseline references and the ledger unchanged and
\* issues no place or cancel call.
TransportErrorLeavesState ==
    [][ReconcileStep /\ ~chain_orders.ok
          => /\ UNCHANGED <<bookVars, ledgerVars>>
             /\ calls' = <<>>]_vars

\* C5 happens: the query of this cycle has failed while the book holds an order
\* that no longer rests at the venue.
FetchFailedOrderGone ==
    /\ pc = "reconcile"
    /\ ~chain_orders.ok
    /\ DOMAIN open_orders \ DOMAIN venue # {}
    /\ best_bid # None /\ best_ask # None

\* C6.  Size monotonicity: no step raises the size stored for an order id that
\* stays in the local book.
SizeNeverIncreases ==
    [][\A o \in DOMAIN open_orders \cap DOMAIN open_orders' :
          open_orders'[o].size <= open_orders[o].size]_vars

\* C6 happens: an order shrunk by a partial fill, for which the venue went on
\* to report a remaining size above the stored one.
ShrunkAndVenueLarger ==
    /\ pc = "sleep"
    /\ \E o \in DOMAIN open_orders \cap DOMAIN venue :
          /\ open_orders[o].size < OrderSize(open_orders[o].price)
          /\ venue[o].sz > open_orders[o].size

\* C7.  Partial-fill replacement: when the cycle finds the single local order
\* o with remaining size r below its stored size s, it stores r, and places on
\* the opposite side an order of size s - r at the quote price of the current
\* mid and skewed spread.
PartialReplacementSize ==
    [][ReconcileStep /\ chain_orders.ok /\ best_bid # None /\ best_ask # None
          => \A o \in DOMAIN open_orders \cap DOMAIN chain_orders.orders :
                LET s == open_orders[o].size
                    r == chain_orders.orders[o].sz
                    side == Opposite(open_orders[o].side)
                IN  DOMAIN open_orders = {o} /\ r < s
                      => /\ open_orders'[o].size = r
                         /\ \E i \in DOMAIN calls' :
                               /\ IsRestingPlace(calls'[i])
                               /\ calls'[i].side = side
                               /\ calls'[i].sz = s - r
                               /\ calls'[i].px =
                                     SidePrice(side, best_bid + best_ask,
                                               btc_balance')]_vars

\* C8.  Symmetric pair: between control-loop iterations the local book holds
\* at most one buy and at most one sell.
SymmetricPair ==
    pc = "sleep"
       => /\ Cardinality(SideOrders(open_orders, "buy")) <= 1
          /\ Cardinality(SideOrders(open_orders, "sell")) <= 1

\* ensure_orders of the first tick returns at mid 100001 with zero inventory,
\* the seed and every placement of the tick acknowledged as resting, and every
\* local order still resting at the venue.
FirstTickDone ==
    /\ EnsureStep
    /\ iter = 1
    /\ best_bid # None /\ best_ask # None /\ best_bid + best_ask = 200002
    /\ btc_balance = 0
    /\ (first_bbo_received => base_buy_oid # None)
    /\ \A i \in DOMAIN calls' : calls'[i].oid # None
    /\ DOMAIN open_orders' \subseteq DOMAIN venue'

\* C9.  First-tick quotes: once a ready BBO has been observed and the first
\* tick has run with all placements acknowledged as resting and no fills, the
\* local book holds exactly one buy, at 99961, and exactly one sell, at 100041
\* (mid 100001, spread 0.0004, tick 1, zero inventory).
FirstTickQuotes ==
    [][FirstTickDone
          => \E b, a \in DOMAIN open_orders' :
                /\ DOMAIN open_orders' = {b, a}
                /\ open_orders'[b].side = "buy"
                /\ open_orders'[b].price = 99961
                /\ open_orders'[a].side = "sell"
                /\ open_orders'[a].price = 100041]_vars

\* C10.  Restart recovery: at the end of the first reconcile cycle, every order
\* of an earlier run that the snapshot lists is in the local book with the
\* snapshot's side, price and size.
RestartRecovery ==
    [][ReconcileStep /\ iter = 1 /\ chain_orders.ok
          => \A o \in DOMAIN chain_orders.orders :
                o < 1 => /\ o \in DOMAIN open_orders'
                         /\ open_orders'[o].side = chain_orders.orders[o].side
                         /\ open_orders'[o].price = chain_orders.orders[o].px
                         /\ open_orders'[o].size = chain_orders.orders[o].sz]_vars

\* The book, the baselines and the inventory that ensure_orders reads.
LocalState(W) == <<W.oo, W.bb, W.bs, W.ref, W.extra, W.btc>>

\* C11.  Ensure idempotence: when ensure_orders runs twice in a row at the
\* same mid and the first call, whatever the venue answered to its placements,
\* leaves the book, the baselines and the inventory as it found them, the
\* second call issues no place call.
EnsureIdempotent ==
    pc = "ensure"
       => \A ob, os \in PlaceOutcomes : \A n \in 0..ExtraSellLevels :
             LET mid2 == MidPrice2(best_bid, best_ask)
                 W1   == EnsureOrders(World, mid2, ob, os, n)
             IN  LocalState(W1) = LocalState(World)
                    => \A ob2, os2 \in PlaceOutcomes :
                          EnsureOrders([W1 EXCEPT !.calls = <<>>],
                                       mid2, ob2, os2, n).calls = <<>>

\* C12.  Fill-log dedup: the volume log holds at most one line per fill hash,
\* and lines only for fills of the pair's base coin.
FillLogDedup ==
    /\ \A i, j \in DOMAIN volume_log :
          i # j => volume_log[i].hash # volume_log[j].hash
    /\ \A i \in DOMAIN volume_log : volume_log[i].coin = "UBTC"

\* C12 happens: at least two responses have been processed and every hash
\* has a line in the log, so that whatever came after the last line repeats.
EveryHashLogged ==
    /\ pc = "sleep"
    /\ iter = 2
    /\ {volume_log[i].hash : i \in DOMAIN volume_log} = 1..MaxHash
    /\ processed_fills = 1..MaxHash

\* C13.  Skew direction: for every balance and every positive position limit
\* _get_spreads returns buy_spread >= spread >= sell_spread for a positive
\* balance, buy_spread <= spread <= sell_spread for a negative one, both equal
\* to spread at zero, and both within [0, 2 * spread].  (Spreads are numerators
\* over the position limit m, so that spread is m.)
SkewDirection ==
    probe.fn = "_get_spreads" /\ probe.done
       => LET btc  == probe.args[1]
              m    == probe.args[2]
              buy  == probe.out[1]
              sell == probe.out[2]
          IN  /\ btc > 0 => buy >= m /\ m >= sell
              /\ btc < 0 => buy <= m /\ m <= sell
              /\ btc = 0 => buy = m /\ sell = m
              /\ 0 <= buy /\ buy <= 2 * m
              /\ 0 <= sell /\ sell <= 2 * m

\* C13 happens: _get_spreads has returned for a balance beyond the position
\* limit, where the clamp decides.
SkewClamped ==
    /\ probe.fn = "_get_spreads" /\ probe.done
    /\ probe.args[1] > probe.args[2]
    /\ probe.out = <<2 * probe.args[2], 0>>

\* C15.  Ledger frame: the balances change only in a reconcile cycle whose
\* snapshot shows a local order gone or with less remaining than stored; no
\* step of the tick (cancel-expired, reprice, ensure, the crash check with its
\* bulk cancel and flatten sell) and no feed callback changes them.
LedgerFrame ==
    [][ledgerVars' # ledgerVars
          => /\ ReconcileStep
             /\ chain_orders.ok
             /\ \E o \in DOMAIN open_orders :
                   \/ o \notin DOMAIN chain_orders.orders
                   \/ chain_orders.orders[o].sz < open_orders[o].size]_vars

\* C15 happens: the crash check has just sent the flatten sell and the base
\* balance is what it was.
FlattenLeftLedger ==
    /\ pc = "fetch"
    /\ last_crash_time = now
    /\ btc_balance > 0
    /\ \E i \in DOMAIN calls :
          /\ calls[i].op = "place" /\ calls[i].tif = "Ioc"
          /\ calls[i].sz = btc_balance

\* A step of the tick in which cancel_expired_orders, reprice_orders or
\* ensure_orders runs.
QuoterStep ==
    \/ pc = "sleep" /\ pc' = "reprice"
    \/ pc = "reprice" /\ pc' = "ensure"
    \/ EnsureStep

\* C16.  Usable snapshot: in a tick where a side of the BBO is missing or the
\* snapshot is crossed (best_bid > best_ask), cancel-expired, reprice and
\* ensure issue no place or cancel call and change no local order state.
UsableSnapshot ==
    [][QuoterStep /\ (best_bid = None \/ best_ask = None \/ best_bid > best_ask)
          => calls' = <<>> /\ UNCHANGED bookVars]_vars

\* C17.  Gateway calls under the lock: the only venue calls made while
\* self.lock is held are single-order place and cancel calls that the control
\* loop makes in cancel-expired, reprice and ensure; the feed callback, the
\* crash check and the reconciler make no venue call while holding it.
GatewayUnderLock ==
    [][\A i \in DOMAIN calls' :
          calls'[i].locked
             => QuoterStep /\ calls'[i].op \in {"place", "cancel"}]_vars

\* A step of the price-feed task: _on_bbo took a message that changed the
\* prices, the samples or the first-BBO flag.  The control loop stays where
\* it is.
FeedStep == pc' = pc /\ feedVars' # feedVars

\* C18.  Price-only feed: the price-feed task changes only best_bid, best_ask,
\* the mid samples and the first-BBO flag; every insertion into or removal
\* from the local order book and every change of the baseline references is
\* made by a step of the control loop.
PriceOnlyFeed ==
    [][/\ FeedStep => UNCHANGED bookVars
       /\ bookVars' # bookVars => pc' # pc]_vars

\* cancel_order for o has just failed: the loop sent the cancel and forgot
\* the order, and the order still rests at the venue.
CancelFailed(o) ==
    /\ \E i \in DOMAIN calls : calls[i].op = "cancel" /\ calls[i].oid = o
    /\ o \in DOMAIN venue
    /\ o \notin DOMAIN open_orders

\* The book and the venue agree about o: tracked again, or no longer resting.
Agreed(o) == o \in DOMAIN open_orders \/ o \notin DOMAIN venue

\* Every reconciliation works on a listing the venue delivered.
QueriesSucceed == pc = "reconcile" => chain_orders.ok

\* C19.  Recovery from a failed cancel: when a cancel sent by cancel-expired
\* or reprice fails and the order keeps resting at the venue, and every later
\* open_orders query succeeds, the order is eventually tracked in the local
\* book again or no longer rests at the venue.
FailedCancelRecovered ==
    \A o \in 1..MaxOid :
       [](CancelFailed(o) /\ []QueriesSucceed => <>Agreed(o))

\* The local orders placed after the listing of this cycle was taken: they
\* rest at the venue and the listing does not show them (the venue never
\* takes back an order it has dropped).
PlacedAfterSnapshot == (DOMAIN open_orders \cap DOMAIN venue) \ DOMAIN chain_orders.orders

\* C20.  Snapshot freshness: the reconciler does not treat as filled an order
\* that was placed after the open_orders listing it works on was taken; such
\* an order stays in the local book, and when it is the only local order the
\* cycle credits nothing to the ledger and places no replacement.
SnapshotFreshness ==
    [][ReconcileStep /\ chain_orders.ok
          => /\ PlacedAfterSnapshot \subseteq DOMAIN open_orders'
             /\ (PlacedAfterSnapshot # {} /\ PlacedAfterSnapshot = DOMAIN open_orders)
                   => UNCHANGED ledgerVars /\ calls' = <<>>]_vars

\* x is a decimal of at most `decimals` fractional digits: the float of some
\* k / 10^decimals.
HasSizeDecimals(x) == \E k \in 1..(MaxRemain + 2) : x = FloatOf(k, SizeScale)

\* C14.  Quantization: every size passed to a venue place call has at most
\* size_decimals fractional digits (and every price is a multiple of
\* price_tick); here for the size of the crash flatten sell.
Quantization == probe.done => HasSizeDecimals(probe.out[1])

\* A reconcile cycle on a delivered listing with an order in it, taken after
\* the last placement, while the auditor's count is known.
AuditedCycle ==
    /\ ReconcileStep
    /\ chain_orders.ok
    /\ DOMAIN chain_orders.orders # {}
    /\ SnapshotCurrent
    /\ audit'.known

\* C21.  Ledger accuracy: after every reconcile cycle whose open_orders query
\* succeeded, the base balance of the ledger equals the signed sum of the
\* quantities the venue has executed on the bot's orders; an order the venue
\* cancelled without executing adds nothing.
LedgerAccuracy == [][AuditedCycle => btc_balance' = audit'.net]_vars

\* C22.  Duplicate acknowledgement is fatal: a placement acknowledged as
\* resting under an id that is already a key of the local book does not
\* overwrite the entry; no entry that stays in the book has its side, price
\* or open time replaced, or its size raised, by a later placement.
NoOverwrite ==
    [][\A o \in DOMAIN open_orders \cap DOMAIN open_orders' :
          /\ open_orders'[o].side = open_orders[o].side
          /\ open_orders'[o].price = open_orders[o].price
          /\ open_orders'[o].timestamp = open_orders[o].timestamp
          /\ open_orders'[o].size <= open_orders[o].size]_vars

\* The mid samples are in the order of their timestamps and span at most
\* crash_window.
WindowOk ==
    /\ \A i, j \in DOMAIN price_history :
          i <= j => price_history[i][1] <= price_history[j][1]
    /\ price_history # <<>>
          => price_history[Len(price_history)][1] - price_history[1][1]
                <= CrashWindow

\* C23.  Mid-sample window: in every reachable state the mid samples are
\* non-decreasing in timestamp and newest minus oldest is at most
\* crash_window; a sample is appended only by a BBO update that leaves both
\* sides present, and the sequence is emptied only by a crash trip.
MidSampleWindow ==
    /\ []WindowOk
    /\ [][/\ (price_history' # price_history /\ price_history' # <<>>)
                => /\ FeedStep
                   /\ best_bid' # None /\ best_ask' # None
                   /\ price_history'[Len(price_history')]
                         = <<now, best_bid' + best_ask'>>
          /\ (price_history # <<>> /\ price_history' = <<>>)
                => CrashStep /\ CrashDetected(price_history)]_vars

\* C23 happens: a sample taken now heads the sequence while the seed, placed
\* with the first sample, is older than crash_window: the first sample was
\* evicted.
WindowSlid ==
    /\ price_history # <<>>
    /\ price_history[1][1] = now
    /\ \E o \in DOMAIN open_orders : now - open_orders[o].timestamp > CrashWindow

\* The step in which cancel_expired_orders runs.
ExpireStep == pc = "sleep" /\ pc' = "reprice"

\* C24.  Expiry needs both conditions, strictly: cancel-expired removes a
\* local order if and only if its age exceeds max_order_age and
\* |mid - price| exceeds price_expiry_threshold; an order whose age equals
\* max_order_age or whose deviation equals the threshold stays in the book.
ExpiryStrict ==
    [][ExpireStep /\ best_bid # None /\ best_ask # None
          => \A o \in DOMAIN open_orders :
                o \notin DOMAIN open_orders'
                   <=> /\ now - open_orders[o].timestamp > MaxOrderAge
                       /\ Abs(best_bid + best_ask - 2 * open_orders[o].price)
                             > 2 * PriceExpiryThreshold]_vars

\* A step that begins with `with self.lock`: the feed callback, the head of
\* a tick, or check_fills past its early return.
AcquireStep ==
    \/ FeedStep
    \/ ExpireStep
    \/ ReconcileStep /\ ~SkipReconcile(chain_orders)

\* The head of a tick of run().
TickCall == CancelExpired /\ Unaudited

\* A message of the feed with both sides.
FeedCall == \E bid \in Bids, ask \in Asks : OnBbo(bid, ask) /\ Unaudited

\* C25.  No re-entry of the lock: no task acquires self.lock while it holds
\* it.  The loop holds it from cancel_expired_orders to check_crash and at
\* no point where it acquires (the head of the tick, check_fills); the feed
\* holds it within its callback alone; every acquiring step finds it free.
\* Hence no deadlock: the loop, waking from its sleep, can enter the region;
\* check_fills finds it free; and the feed's callback can run whenever it is
\* free (and the samples kept are fewer than MaxHist).
NoReentry ==
    /\ [](lock = "loop" <=> pc \in {"reprice", "ensure", "crash"})
    /\ [](lock \in {"free", "loop"})
    /\ [][AcquireStep => lock = "free" /\ \A i \in DOMAIN calls' : calls'[i].locked]_vars
    /\ [](pc = "sleep" => ENABLED TickCall)
    /\ [](pc = "reconcile" => lock = "free")
    /\ [](lock = "free" /\ Len(price_history) < MaxHist => ENABLED FeedCall)

\* The loop is inside the region in a later tick, past the calls of
\* ensure_orders, with orders in its book.
InsideRegion ==
    /\ lock = "loop"
    /\ pc = "crash"
    /\ iter = 2
    /\ DOMAIN open_orders # {}
    /\ calls # <<>>

====
